---- MODULE Spec2Model ----
(***************************************************************************)
(* A model of buttrest.py: a REST facade over a buttplug Client.  The      *)
(* registry (client.devices and the four handle collections of each       *)
(* device) is owned by the client; every request is routed, validated,    *)
(* looked up, rendered / dispatched and mapped to a response.             *)
(*                                                                         *)
(* Numbers of a command body are fixed-point tenths (10 is 1.0), URLs are *)
(* sequences of path segments ("/devices/0/sensors/1" is                  *)
(* <<"devices", "0", "sensors", "1">>).                                    *)
(***************************************************************************)
EXTENDS Integers, Sequences, FiniteSets, TLC

\* Device indices the hardware server hands out: 0..MaxDevIndex.
MaxDevIndex == 2

\* The wall clock runs from 0 to MaxNow.
MaxNow == 2

\* 1.0 in the fixed-point unit of command bodies.
Tenths == 10

DevIndexes == 0..MaxDevIndex

\* The integers a <device_id:int> / <actuator_id:int> path segment is drawn from:
\* one below zero and one past every collection.
IdRange == -1..(MaxDevIndex + 1)

Tasks == {1, 2}

---------------------------------------------------------------------------
\* The hardware the client can discover: what device d announces.

NumSensors(d) == (d + 1) % 3
NumActuators(d) == 1 + (d % 2)
NumLinear(d) == d % 3
NumRotatory(d) == (d + 2) % 3

StepCount(cat) == CASE cat = "Vibrate" -> 20 [] cat = "Position" -> 100 [] cat = "Rotate" -> 50 [] OTHER -> 0

\* A Sensor / Actuator handle of the client: index is its position in its collection.
Handle(cat, i) == [index |-> i, description |-> cat, step_count |-> StepCount(cat)]

HandleSeq(cat, n) == [k \in 1..n |-> Handle(cat, k - 1)]

Device(d) ==
    [index |-> d,
     name |-> "Toy",
     sensors |-> HandleSeq("Battery", NumSensors(d)),
     actuators |-> HandleSeq("Vibrate", NumActuators(d)),
     linear_actuators |-> HandleSeq("Position", NumLinear(d)),
     rotatory_actuators |-> HandleSeq("Rotate", NumRotatory(d))]

---------------------------------------------------------------------------
\* Routing: the path templates of the @app.get / @app.post decorators.

DEV == "<device_id:int>"
SID == "<sensor_id:int>"
AID == "<actuator_id:int>"

Routes ==
    { [name |-> "index", method |-> "GET", path |-> <<>>],
      [name |-> "health_check", method |-> "GET", path |-> <<"healthz">>],
      [name |-> "scan", method |-> "POST", path |-> <<"scan">>],
      [name |-> "devices_get", method |-> "GET", path |-> <<"devices">>],
      [name |-> "device_get", method |-> "GET", path |-> <<"devices", DEV>>],
      [name |-> "sensors_get", method |-> "GET", path |-> <<"devices", DEV, "sensors">>],
      [name |-> "sensor_get", method |-> "GET", path |-> <<"devices", DEV, "sensors", SID>>],
      [name |-> "sensor_reading_get", method |-> "GET",
       path |-> <<"devices", DEV, "sensors", SID, "read">>],
      [name |-> "actuators_get", method |-> "GET", path |-> <<"devices", DEV, "actuators">>],
      [name |-> "actuator_get", method |-> "GET", path |-> <<"devices", DEV, "actuators", AID>>],
      [name |-> "actuator_post", method |-> "POST", path |-> <<"devices", DEV, "actuators", AID>>],
      [name |-> "linear_actuators_get", method |-> "GET",
       path |-> <<"devices", DEV, "linear_actuators">>],
      [name |-> "linear_actuator_get", method |-> "GET",
       path |-> <<"devices", DEV, "linear_actuators", AID>>],
      [name |-> "linear_actuator_post", method |-> "POST",
       path |-> <<"devices", DEV, "linear_actuators", AID>>],
      [name |-> "rotatory_actuators_get", method |-> "GET",
       path |-> <<"devices", DEV, "rotatory_actuators">>],
      [name |-> "rotatory_actuator_get", method |-> "GET",
       path |-> <<"devices", DEV, "rotatory_actuators", AID>>],
      [name |-> "rotatory_actuator_post", method |-> "POST",
       path |-> <<"devices", DEV, "rotatory_actuators", AID>>] }

RouteNamed(name) == CHOOSE r \in Routes : r.name = name

IsParam(seg) == seg \in {DEV, SID, AID}

\* app.url_for(name, device_id=..., sensor_id= / actuator_id=...): the template of
\* the named handler with its parameters formatted in.
url_for(name, device_id, child_id) ==
    LET tpl == RouteNamed(name).path
    IN  [k \in 1..Len(tpl) |->
            IF tpl[k] = DEV THEN ToString(device_id)
            ELSE IF tpl[k] \in {SID, AID} THEN ToString(child_id)
            ELSE tpl[k]]

\* The <name:int> parameter type: an optional minus sign and digits.
IsIntSegment(seg) == \E i \in IdRange : ToString(i) = seg
ParseInt(seg) == CHOOSE i \in IdRange : ToString(i) = seg

Matches(r, method, path) ==
    /\ r.method = method
    /\ Len(r.path) = Len(path)
    /\ \A k \in 1..Len(path) :
          IF IsParam(r.path[k]) THEN IsIntSegment(path[k]) ELSE r.path[k] = path[k]

Routable(method, path) == \E r \in Routes : Matches(r, method, path)

\* The handler a request is routed to, with its path parameters parsed.
Route(method, path) ==
    LET r == CHOOSE r \in Routes : Matches(r, method, path)
        at(p) == CHOOSE k \in 1..Len(path) : r.path[k] \in p
    IN  [name |-> r.name,
         device_id |-> IF \E k \in 1..Len(path) : r.path[k] = DEV
                       THEN ParseInt(path[at({DEV})]) ELSE 0,
         child_id |-> IF \E k \in 1..Len(path) : r.path[k] \in {SID, AID}
                      THEN ParseInt(path[at({SID, AID})]) ELSE 0]

---------------------------------------------------------------------------
VARIABLES
    lifecycle,   \* where before_server_start / after_server_stop stand
    connected,   \* client.connected
    scanning,    \* whether the hardware server is discovering devices
    devices,     \* client.devices: a dict from device index to Device
    pc,          \* per task: where its request handler stands
    req,         \* per task: the request being handled
    await,       \* per task: the handle / parsed body its suspended call holds
    hw,          \* per task: the hardware operations the request has invoked
    resp,        \* per task: the response delivered to the caller
    shutdown,    \* how the server's stop went: what became of client.disconnect()
    now          \* the wall clock, datetime.now()

vars == <<lifecycle, connected, scanning, devices, pc, req, await, hw, resp, shutdown, now>>

---------------------------------------------------------------------------
\* Command bodies (the JSON the @validate decorator hands to pydantic).

Absent == [t |-> "absent", n |-> 0]
Text == [t |-> "str", n |-> 0]
Num(n) == [t |-> "num", n |-> n]
Bool(b) == [t |-> "bool", n |-> IF b THEN 1 ELSE 0]

NoBody ==
    [intensity |-> Absent, duration |-> Absent, position |-> Absent,
     speed |-> Absent, clockwise |-> Absent]

NoCtx == [key |-> "none", limit |-> 0]

ErrorDetail(field, code, msg, ctx) == [loc |-> <<field>>, type |-> code, msg |-> msg, ctx |-> ctx]

\* FloatUnitField with the upper bound exclusive (lt instead of le).
FloatUnitField_exclusive(field, v) ==
    CASE v.t = "absent" -> <<ErrorDetail(field, "missing", "Field required", NoCtx)>>
      [] v.t = "str" ->
            <<ErrorDetail(field, "float_parsing", "Input should be a valid number", NoCtx)>>
      [] v.t = "num" ->
            IF ~(v.n >= 0)
            THEN <<ErrorDetail(field, "greater_than_equal",
                               "Input should be greater than or equal to 0",
                               [key |-> "ge", limit |-> 0])>>
            ELSE IF ~(v.n < Tenths)
            THEN <<ErrorDetail(field, "less_than",
                               "Input should be less than 1",
                               [key |-> "lt", limit |-> Tenths])>>
            ELSE <<>>

\* float = Field(ge=0.0, le=1.0), required.
FloatUnitField(field, v) ==
    CASE v.t = "absent" -> <<ErrorDetail(field, "missing", "Field required", NoCtx)>>
      [] v.t = "str" ->
            <<ErrorDetail(field, "float_parsing", "Input should be a valid number", NoCtx)>>
      [] v.t = "num" ->
            IF ~(v.n >= 0)
            THEN <<ErrorDetail(field, "greater_than_equal",
                               "Input should be greater than or equal to 0",
                               [key |-> "ge", limit |-> 0])>>
            ELSE IF ~(v.n <= Tenths)
            THEN <<ErrorDetail(field, "less_than_equal",
                               "Input should be less than or equal to 1",
                               [key |-> "le", limit |-> Tenths])>>
            ELSE <<>>

\* int = Field(ge=0.0), required: a number with a fractional part is no integer.
IntNonNegField(field, v) ==
    CASE v.t = "absent" -> <<ErrorDetail(field, "missing", "Field required", NoCtx)>>
      [] v.t = "str" ->
            <<ErrorDetail(field, "int_parsing", "Input should be a valid integer", NoCtx)>>
      [] v.t = "num" ->
            IF v.n % Tenths # 0
            THEN <<ErrorDetail(field, "int_from_float",
                               "Input should be a valid integer, got a number with a fractional part",
                               NoCtx)>>
            ELSE IF ~(v.n >= 0)
            THEN <<ErrorDetail(field, "greater_than_equal",
                               "Input should be greater than or equal to 0",
                               [key |-> "ge", limit |-> 0])>>
            ELSE <<>>

\* bool = Field(default=False).
BoolDefaultField(field, v) ==
    CASE v.t = "absent" -> <<>>
      [] v.t = "bool" -> <<>>
      [] v.t = "str" ->
            <<ErrorDetail(field, "bool_parsing", "Input should be a valid boolean", NoCtx)>>

\* cause.errors() of the pydantic model: one entry per offending field, in field order.
ActuatorCommand(body) == FloatUnitField("intensity", body.intensity)

\* LinearActuatorCommand stopping at the first field that fails.
LinearActuatorCommand_first(body) ==
    IF IntNonNegField("duration", body.duration) # <<>>
    THEN IntNonNegField("duration", body.duration)
    ELSE FloatUnitField("position", body.position)

LinearActuatorCommand(body) ==
    IntNonNegField("duration", body.duration) \o FloatUnitField("position", body.position)

RotatoryActuatorCommand(body) ==
    FloatUnitField("speed", body.speed) \o BoolDefaultField("clockwise", body.clockwise)

\* @validate(json=...): the model a handler's body is validated against.
ValidatedBy(name) ==
    CASE name = "actuator_post" -> "ActuatorCommand"
      [] name = "linear_actuator_post" -> "LinearActuatorCommand"
      [] name = "rotatory_actuator_post" -> "RotatoryActuatorCommand"
      [] OTHER -> "none"

ValidationErrors(name, body) ==
    CASE ValidatedBy(name) = "ActuatorCommand" -> ActuatorCommand(body)
      [] ValidatedBy(name) = "LinearActuatorCommand" -> LinearActuatorCommand(body)
      [] ValidatedBy(name) = "RotatoryActuatorCommand" -> RotatoryActuatorCommand(body)
      [] OTHER -> <<>>

\* The arguments the handler passes to actuator.command from the validated body.
CommandArgs(name, body) ==
    CASE name = "actuator_post" -> <<body.intensity.n>>
      [] name = "linear_actuator_post" -> <<body.duration.n, body.position.n>>
      [] name = "rotatory_actuator_post" ->
            <<body.speed.n, IF body.clockwise.t = "bool" THEN body.clockwise.n ELSE 0>>

---------------------------------------------------------------------------
\* Exceptions: the class, whether it is a SanicException, and what
\* handle_exception reads from it (status_code, message, str()).

Exc(cls, sanic, status_code, message, text) ==
    [cls |-> cls, sanic |-> sanic, status_code |-> status_code, message |-> message,
     str |-> text, errors |-> <<>>]

ButtPlugConnectionError ==
    Exc("ButtPlugConnectionError", TRUE, 502, "Client Connection Failed", "Client Connection Failed")

\* The *NotFound classes set message and the id without calling NotFound.__init__:
\* str() of the exception is its only constructor argument, the id.
DeviceNotFound(device_id) ==
    Exc("DeviceNotFound", TRUE, 404, "Device Not Found", ToString(device_id))

ActuatorNotFound(actuator_id) ==
    Exc("ActuatorNotFound", TRUE, 404, "Actuator Not Found", ToString(actuator_id))

SensorNotFound(sensor_id) ==
    Exc("SensorNotFound", TRUE, 404, "Sensor Not Found", ToString(sensor_id))

ServerError(message) == Exc("ServerError", TRUE, 500, message, message)

SanicExtValidationError(errors) ==
    [Exc("SanicExtValidationError", TRUE, 400, "Invalid request body", "Invalid request body")
        EXCEPT !.errors = errors]

\* Exceptions that are no SanicException: KeyError / IndexError of a subscript,
\* ButtplugError of the hardware layer, asyncio's TimeoutError.
PythonError(cls, text) == Exc(cls, FALSE, 500, "Internal Server Error", text)

Ok(v) == [ok |-> TRUE, val |-> v]
Raise(e) == [ok |-> FALSE, exc |-> e]

---------------------------------------------------------------------------
\* Utility methods: the registry lookups.

\* get_client without its connectivity check.
get_client_unchecked == Ok("client")

get_client == IF ~connected THEN Raise(ButtPlugConnectionError) ELSE Ok("client")

\* len(client.devices) and client.devices[device_id] of a dict keyed by device index.
DictLen(d) == Cardinality(DOMAIN d)
DictGet(d, key) == IF key \in DOMAIN d THEN Ok(d[key]) ELSE Raise(PythonError("KeyError", ToString(key)))

\* seq[i] of a Python sequence: a negative index counts from the end.
ListGet(seq, i) ==
    IF 0 <= i /\ i < Len(seq) THEN Ok(seq[i + 1])
    ELSE IF i < 0 /\ -i <= Len(seq) THEN Ok(seq[Len(seq) + i + 1])
    ELSE Raise(PythonError("IndexError", "index out of range"))

get_device(device_id) ==
    LET client == get_client
    IN  IF ~client.ok THEN client
        ELSE IF DictLen(devices) <= device_id THEN Raise(DeviceNotFound(device_id))
        ELSE DictGet(devices, device_id)

get_sensor(device_id, sensor_id) ==
    LET device == get_device(device_id)
    IN  IF ~device.ok THEN device
        ELSE IF Len(device.val.sensors) <= sensor_id THEN Raise(SensorNotFound(sensor_id))
        ELSE ListGet(device.val.sensors, sensor_id)

get_actuator(device_id, actuator_id) ==
    LET device == get_device(device_id)
    IN  IF ~device.ok THEN device
        ELSE IF Len(device.val.actuators) <= actuator_id THEN Raise(ActuatorNotFound(actuator_id))
        ELSE ListGet(device.val.actuators, actuator_id)

get_linear_actuator(device_id, actuator_id) ==
    LET device == get_device(device_id)
    IN  IF ~device.ok THEN device
        ELSE IF Len(device.val.linear_actuators) <= actuator_id
        THEN Raise(ActuatorNotFound(actuator_id))
        ELSE ListGet(device.val.linear_actuators, actuator_id)

get_rotatory_actuator(device_id, actuator_id) ==
    LET device == get_device(device_id)
    IN  IF ~device.ok THEN device
        ELSE IF Len(device.val.rotatory_actuators) <= actuator_id
        THEN Raise(ActuatorNotFound(actuator_id))
        ELSE ListGet(device.val.rotatory_actuators, actuator_id)

---------------------------------------------------------------------------
\* Rendering.

render_device(device) ==
    [id |-> url_for("device_get", device.index, 0),
     type |-> "Device",
     name |-> device.name,
     sensors |->
        [k \in 1..Len(device.sensors) |->
            url_for("sensor_get", device.index, device.sensors[k].index)],
     actuators |->
        [k \in 1..Len(device.actuators) |->
            url_for("actuator_get", device.index, device.actuators[k].index)],
     linear_actuators |->
        [k \in 1..Len(device.linear_actuators) |->
            url_for("linear_actuator_get", device.index, device.linear_actuators[k].index)],
     rotatory_actuators |->
        [k \in 1..Len(device.rotatory_actuators) |->
            url_for("rotatory_actuator_get", device.index, device.rotatory_actuators[k].index)]]

render_sensor(device_id, sensor) ==
    [id |-> url_for("sensor_get", device_id, sensor.index),
     type |-> "Sensor",
     description |-> sensor.description,
     sensor_reading |-> url_for("sensor_reading_get", device_id, sensor.index)]

render_sensor_reading(device_id, sensor, readings, instant) ==
    [id |-> url_for("sensor_reading_get", device_id, sensor.index),
     type |-> "SensorReading",
     instant |-> instant,
     value |-> readings]

\* ActuatorItem(id=url_for("actuator_get", ...), ...): @type keeps ActuatorItem's default.
render_actuator(device_id, actuator) ==
    [id |-> url_for("actuator_get", device_id, actuator.index),
     type |-> "Actuator",
     description |-> actuator.description,
     step_count |-> actuator.step_count]

---------------------------------------------------------------------------
\* Responses and the exception handlers.

jsonld(body) ==
    [http |-> TRUE, status |-> 200, content_type |-> "application/ld+json", body |-> body]

StatusOk == [status |-> "ok"]

\* A JSON array as a body: the record holding its elements as root (as
\* DeviceItemList(root=...) does).
JsonList(items) == [root |-> items]

NoResp == [http |-> FALSE, status |-> 0, content_type |-> "", body |-> [status |-> "none"]]

\* An exception instance handed back with `return`: no HTTPResponse.
ReturnedException(exc) ==
    [http |-> FALSE, status |-> exc.status_code, content_type |-> "", body |-> [status |-> "exception"]]

handle_validation_error(exception) ==
    [http |-> TRUE,
     status |-> 422,
     content_type |-> "application/problem+json",
     body |->
        [type |-> "https://problems-registry.smartbear.com/validation-error",
         title |-> "Validation Error",
         status |-> 422,
         detail |-> "Request validation failed",
         errors |->
            [k \in 1..Len(exception.errors) |->
                [pointer |-> <<"/", exception.errors[k].loc[1]>>,
                 ctx |-> exception.errors[k].ctx,
                 code |-> exception.errors[k].type,
                 detail |-> exception.errors[k].msg]]]]

handle_exception(exception) ==
    [http |-> TRUE,
     status |-> exception.status_code,
     content_type |-> "application/problem+json",
     body |->
        [title |-> exception.message, status |-> exception.status_code, detail |-> exception.str]]

\* app.config.FALLBACK_ERROR_FORMAT = "json": the framework's own body for an
\* exception no registered handler covers.
FallbackError(exception) ==
    [http |-> TRUE,
     status |-> 500,
     content_type |-> "application/json",
     body |-> [description |-> "Internal Server Error", status |-> 500, message |-> exception.message]]

\* The handler registered for the exception's class (the most specific one).
ErrorResponse(exception) ==
    IF exception.cls = "SanicExtValidationError" THEN handle_validation_error(exception)
    ELSE IF exception.sanic THEN handle_exception(exception)
    ELSE FallbackError(exception)

Respond(r) == [k |-> "respond", resp |-> r]
Raised(e) == [k |-> "raise", exc |-> e]
Suspend(op, device_id, handle, args) ==
    [k |-> "await", op |-> op, device_id |-> device_id, handle |-> handle, args |-> args]

\* What the framework sends for a handler's outcome: a returned HTTPResponse as it
\* is, anything else returned is a server error, an exception goes to its handler.
Deliverable(out) ==
    IF out.k = "raise" THEN ErrorResponse(out.exc)
    ELSE IF out.resp.http THEN out.resp
    ELSE ErrorResponse(ServerError("Invalid response type"))

---------------------------------------------------------------------------
\* Handlers, up to their first suspend point.

NoHandle == [index |-> -1, description |-> "", step_count |-> 0]

\* client.devices.values(), in index order.
DictValues(d) ==
    LET keys == DOMAIN d
        nth(k) == CHOOSE x \in keys : Cardinality({y \in keys : y < x}) = k - 1
    IN  [k \in 1..Cardinality(keys) |-> d[nth(k)]]

\* health_check answering by how busy the server is.
health_check_busy ==
    Respond(jsonld(IF \A t \in Tasks : pc[t] = "idle" THEN StatusOk ELSE [status |-> "busy"]))

\* @app.get("/healthz")
health_check == Respond(jsonld(StatusOk))

index == Respond(jsonld(StatusOk))

scan ==
    LET client == get_client
    IN  IF ~client.ok THEN Raised(client.exc)
        ELSE Suspend("start_scanning", -1, NoHandle, <<>>)

devices_get ==
    LET client == get_client
    IN  IF ~client.ok THEN Raised(client.exc)
        ELSE LET vals == DictValues(devices)
             IN  Respond(jsonld(JsonList([k \in 1..Len(vals) |-> render_device(vals[k])])))

device_get(device_id) ==
    LET device == get_device(device_id)
    IN  IF ~device.ok THEN Raised(device.exc)
        ELSE Respond(jsonld(render_device(device.val)))

sensors_get(device_id) ==
    LET device == get_device(device_id)
    IN  IF ~device.ok THEN Raised(device.exc)
        ELSE Respond(jsonld(JsonList([k \in 1..Len(device.val.sensors) |->
                                         render_sensor(device_id, device.val.sensors[k])])))

sensor_get(device_id, sensor_id) ==
    LET sensor == get_sensor(device_id, sensor_id)
    IN  IF ~sensor.ok THEN Raised(sensor.exc)
        ELSE Respond(jsonld(render_sensor(device_id, sensor.val)))

\* The lookup's exceptions are no TimeoutError: they leave the try block.
sensor_reading_get(device_id, sensor_id) ==
    LET sensor == get_sensor(device_id, sensor_id)
    IN  IF ~sensor.ok THEN Raised(sensor.exc)
        ELSE Suspend("read", device_id, sensor.val, <<>>)

actuators_get(device_id) ==
    LET device == get_device(device_id)
    IN  IF ~device.ok THEN Raised(device.exc)
        ELSE Respond(jsonld(JsonList([k \in 1..Len(device.val.actuators) |->
                                         render_actuator(device_id, device.val.actuators[k])])))

actuator_get(device_id, actuator_id) ==
    LET actuator == get_actuator(device_id, actuator_id)
    IN  IF ~actuator.ok THEN Raised(actuator.exc)
        ELSE Respond(jsonld(render_actuator(device_id, actuator.val)))

actuator_post(device_id, actuator_id, body) ==
    LET actuator == get_actuator(device_id, actuator_id)
    IN  IF ~actuator.ok THEN Raised(actuator.exc)
        ELSE Suspend("command", device_id, actuator.val, CommandArgs("actuator_post", body))

linear_actuators_get(device_id) ==
    LET device == get_device(device_id)
    IN  IF ~device.ok THEN Raised(device.exc)
        ELSE Respond(jsonld(JsonList([k \in 1..Len(device.val.linear_actuators) |->
                                         render_actuator(device_id, device.val.linear_actuators[k])])))

linear_actuator_get(device_id, actuator_id) ==
    LET actuator == get_linear_actuator(device_id, actuator_id)
    IN  IF ~actuator.ok THEN Raised(actuator.exc)
        ELSE Respond(jsonld(render_actuator(device_id, actuator.val)))

linear_actuator_post(device_id, actuator_id, body) ==
    LET actuator == get_linear_actuator(device_id, actuator_id)
    IN  IF ~actuator.ok THEN Raised(actuator.exc)
        ELSE Suspend("command", device_id, actuator.val,
                     CommandArgs("linear_actuator_post", body))

\* The list handler iterates device.linear_actuators.
rotatory_actuators_get(device_id) ==
    LET device == get_device(device_id)
    IN  IF ~device.ok THEN Raised(device.exc)
        ELSE Respond(jsonld(JsonList([k \in 1..Len(device.val.linear_actuators) |->
                                         render_actuator(device_id, device.val.linear_actuators[k])])))

rotatory_actuator_get(device_id, actuator_id) ==
    LET actuator == get_rotatory_actuator(device_id, actuator_id)
    IN  IF ~actuator.ok THEN Raised(actuator.exc)
        ELSE Respond(jsonld(render_actuator(device_id, actuator.val)))

rotatory_actuator_post(device_id, actuator_id, body) ==
    LET actuator == get_rotatory_actuator(device_id, actuator_id)
    IN  IF ~actuator.ok THEN Raised(actuator.exc)
        ELSE Suspend("command", device_id, actuator.val,
                     CommandArgs("rotatory_actuator_post", body))

Handler(name, device_id, child_id, body) ==
    CASE name = "index" -> index
      [] name = "health_check" -> health_check
      [] name = "scan" -> scan
      [] name = "devices_get" -> devices_get
      [] name = "device_get" -> device_get(device_id)
      [] name = "sensors_get" -> sensors_get(device_id)
      [] name = "sensor_get" -> sensor_get(device_id, child_id)
      [] name = "sensor_reading_get" -> sensor_reading_get(device_id, child_id)
      [] name = "actuators_get" -> actuators_get(device_id)
      [] name = "actuator_get" -> actuator_get(device_id, child_id)
      [] name = "actuator_post" -> actuator_post(device_id, child_id, body)
      [] name = "linear_actuators_get" -> linear_actuators_get(device_id)
      [] name = "linear_actuator_get" -> linear_actuator_get(device_id, child_id)
      [] name = "linear_actuator_post" -> linear_actuator_post(device_id, child_id, body)
      [] name = "rotatory_actuators_get" -> rotatory_actuators_get(device_id)
      [] name = "rotatory_actuator_get" -> rotatory_actuator_get(device_id, child_id)
      [] name = "rotatory_actuator_post" -> rotatory_actuator_post(device_id, child_id, body)

\* A handler without its @validate decorator.
validate_missing(name, device_id, child_id, body) == Handler(name, device_id, child_id, body)

\* @validate(json=Model) wraps the handler: the body is validated before the
\* handler's own code runs.
validate(name, device_id, child_id, body) ==
    LET errors == ValidationErrors(name, body)
    IN  IF errors # <<>> THEN Raised(SanicExtValidationError(errors))
        ELSE Handler(name, device_id, child_id, body)

---------------------------------------------------------------------------
\* The requests a caller may send.

IntensityVals == {Absent, Text, Num(-1), Num(0), Num(5), Num(Tenths), Num(Tenths + 1), Num(Tenths + 5)}
DurationVals == {Absent, Text, Num(-Tenths), Num(0), Num(5), Num(2 * Tenths)}
PositionVals == {Absent, Num(-1), Num(0), Num(Tenths), Num(Tenths + 1)}
SpeedVals == {Absent, Num(-1), Num(0), Num(Tenths), Num(Tenths + 1)}
ClockwiseVals == {Absent, Text, Bool(TRUE), Bool(FALSE)}

Bodies ==
    {[NoBody EXCEPT !.intensity = v] : v \in IntensityVals}
    \cup {[NoBody EXCEPT !.duration = d, !.position = p] : d \in DurationVals, p \in PositionVals}
    \cup {[NoBody EXCEPT !.speed = v, !.clockwise = c] : v \in SpeedVals, c \in ClockwiseVals}

Requests ==
    UNION { { [method |-> r.method, path |-> url_for(r.name, d, c), body |-> b] :
                d \in IdRange, c \in IdRange,
                b \in IF ValidatedBy(r.name) # "none" THEN Bodies ELSE {NoBody} } :
            r \in Routes }

NoReq == [method |-> "", path |-> <<>>, body |-> NoBody]
NoAwait == [op |-> "", device_id |-> -1, handle |-> NoHandle, args |-> <<>>]

\* What a sensor's read() may return and the messages a ButtplugError may carry.
Readings == {<<50>>, <<3, 7>>}
HardwareMessages == {"device busy", "device gone"}

\* One call into the hardware layer and how it ended: "pending" while the task is
\* suspended in it, then "returned", "ButtplugError" (with its message) or "timeout"
\* (cancelled by wait_for; "late" once the hardware has answered it all the same).
\* started and ended are the clock at the call and at its end, value is what the
\* hardware answered.
HwCall(op, device_id, handle, args, result) ==
    [op |-> op, device_id |-> device_id, handle |-> handle, args |-> args,
     result |-> result, error |-> "", started |-> now,
     ended |-> IF result = "pending" THEN -1 ELSE now, value |-> <<>>]

Ended(calls, result, error) ==
    [calls EXCEPT ![Len(calls)] = [@ EXCEPT !.result = result, !.error = error, !.ended = now]]

\* The last call has returned value.
Returned(calls, value) ==
    [calls EXCEPT ![Len(calls)] = [@ EXCEPT !.result = "returned", !.ended = now, !.value = value]]

AllIdle == \A t \in Tasks : pc[t] = "idle"

---------------------------------------------------------------------------
Init ==
    /\ lifecycle = "created"
    /\ connected = FALSE
    /\ scanning = FALSE
    /\ devices = <<>>
    /\ pc = [t \in Tasks |-> "idle"]
    /\ req = [t \in Tasks |-> NoReq]
    /\ await = [t \in Tasks |-> NoAwait]
    /\ hw = [t \in Tasks |-> <<>>]
    /\ resp = [t \in Tasks |-> NoResp]
    /\ shutdown = "none"
    /\ now = 0

\* before_server_start: await client.connect(connector)
StartupConnect ==
    /\ lifecycle = "created"
    /\ lifecycle' = "connecting"
    /\ connected' = TRUE
    /\ UNCHANGED <<scanning, devices, pc, req, await, hw, resp, shutdown, now>>

\* before_server_start: await client.start_scanning()
StartupStartScanning ==
    /\ lifecycle = "connecting"
    /\ lifecycle' = "scanning"
    /\ scanning' = TRUE
    /\ UNCHANGED <<connected, devices, pc, req, await, hw, resp, shutdown, now>>

\* before_server_start: after the sleep, await client.stop_scanning(); app.ctx.client = client
StartupStopScanning ==
    /\ lifecycle = "scanning"
    /\ lifecycle' = "ready"
    /\ scanning' = FALSE
    /\ UNCHANGED <<connected, devices, pc, req, await, hw, resp, shutdown, now>>

\* after_server_stop: await app.ctx.client.disconnect()
after_server_stop ==
    /\ lifecycle = "ready"
    /\ AllIdle
    /\ lifecycle' = "stopped"
    /\ connected' = FALSE
    /\ scanning' = FALSE
    /\ shutdown' = "disconnected"
    /\ UNCHANGED <<devices, pc, req, await, hw, resp, now>>

\* before_server_start: client.connect(connector) raises (no hardware server at the
\* URL): the listener ends there, app.ctx.client is never assigned.
StartupConnectFails ==
    /\ lifecycle = "created"
    /\ lifecycle' = "failed"
    /\ UNCHANGED <<connected, scanning, devices, pc, req, await, hw, resp, shutdown, now>>

\* before_server_start: start_scanning() or stop_scanning() raises on the connected
\* client: the listener ends there, app.ctx.client is never assigned.
StartupScanFails ==
    /\ lifecycle \in {"connecting", "scanning"}
    /\ lifecycle' = "failed"
    /\ UNCHANGED <<connected, scanning, devices, pc, req, await, hw, resp, shutdown, now>>

\* The server stops after a startup that raised.  Where the framework still runs
\* after_server_stop, app.ctx.client raises AttributeError; where it does not, the
\* hook is not run at all.  The client is left as it is either way.
StopAfterFailedStartup(hook) ==
    /\ lifecycle = "failed"
    /\ lifecycle' = "stopped"
    /\ shutdown' = IF hook THEN "AttributeError" ELSE "not run"
    /\ UNCHANGED <<connected, scanning, devices, pc, req, await, hw, resp, now>>

\* Time passes.
Tick ==
    /\ now < MaxNow
    /\ now' = now + 1
    /\ UNCHANGED <<lifecycle, connected, scanning, devices, pc, req, await, hw, resp, shutdown>>

\* The client's registry follows the hardware server: a device announces itself
\* while the server scans, and leaves at any time.
DeviceAdded(d) ==
    /\ connected
    /\ scanning
    /\ d \notin DOMAIN devices
    /\ devices' = [k \in DOMAIN devices \cup {d} |-> IF k = d THEN Device(d) ELSE devices[k]]
    /\ UNCHANGED <<lifecycle, connected, scanning, pc, req, await, hw, resp, shutdown, now>>

DeviceRemoved(d) ==
    /\ connected
    /\ d \in DOMAIN devices
    /\ devices' = [k \in DOMAIN devices \ {d} |-> devices[k]]
    /\ UNCHANGED <<lifecycle, connected, scanning, pc, req, await, hw, resp, shutdown, now>>

\* The hardware server goes away: the client reports not-connected from then on.
ConnectionLost ==
    /\ lifecycle = "ready"
    /\ connected
    /\ connected' = FALSE
    /\ scanning' = FALSE
    /\ UNCHANGED <<lifecycle, devices, pc, req, await, hw, resp, shutdown, now>>

\* A request arrives and its handler runs to its first suspend point or to its end.
Receive(t, r) ==
    /\ lifecycle = "ready"
    /\ pc[t] = "idle"
    /\ \E rt \in {Route(r.method, r.path)} :
       \E out \in {validate(rt.name, rt.device_id, rt.child_id, r.body)} :
           /\ req' = [req EXCEPT ![t] = r]
           /\ IF out.k = "await"
              THEN /\ pc' = [pc EXCEPT ![t] =
                                CASE out.op = "command" -> "await_command"
                                  [] out.op = "read" -> "await_read"
                                  [] out.op = "start_scanning" -> "scan_sleep"]
                   /\ await' = [await EXCEPT ![t] = [op |-> out.op, device_id |-> out.device_id,
                                                     handle |-> out.handle, args |-> out.args]]
                   /\ hw' = [hw EXCEPT ![t] =
                                <<HwCall(out.op, out.device_id, out.handle, out.args,
                                         IF out.op = "start_scanning" THEN "returned"
                                         ELSE "pending")>>]
                   /\ scanning' = IF out.op = "start_scanning" THEN TRUE ELSE scanning
                   /\ resp' = [resp EXCEPT ![t] = NoResp]
              ELSE /\ pc' = [pc EXCEPT ![t] = "done"]
                   /\ await' = [await EXCEPT ![t] = NoAwait]
                   /\ hw' = [hw EXCEPT ![t] = <<>>]
                   /\ scanning' = scanning
                   /\ resp' = [resp EXCEPT ![t] = Deliverable(out)]
    /\ UNCHANGED <<lifecycle, connected, devices, shutdown, now>>

Finish(t, out) ==
    /\ pc' = [pc EXCEPT ![t] = "done"]
    /\ await' = [await EXCEPT ![t] = NoAwait]
    /\ resp' = [resp EXCEPT ![t] = Deliverable(out)]

\* CommandAck held back while another request is suspended.
CommandAck_serial(t) ==
    /\ pc[t] = "await_command"
    /\ \A u \in Tasks \ {t} : pc[u] \in {"idle", "done"}
    /\ hw' = [hw EXCEPT ![t] = Ended(@, "returned", "")]
    /\ Finish(t, Respond(jsonld(StatusOk)))
    /\ UNCHANGED <<lifecycle, connected, scanning, devices, req, shutdown, now>>

\* await actuator.command(...) returns: return jsonld({"status": "ok"})
CommandAck(t) ==
    /\ pc[t] = "await_command"
    /\ hw' = [hw EXCEPT ![t] = Ended(@, "returned", "")]
    /\ Finish(t, Respond(jsonld(StatusOk)))
    /\ UNCHANGED <<lifecycle, connected, scanning, devices, req, shutdown, now>>

\* CommandError with the command sent a second time after the failure.
CommandError_retried(t, msg) ==
    /\ pc[t] = "await_command"
    /\ Len(hw[t]) < 2
    /\ hw' = [hw EXCEPT ![t] =
                 Append(Ended(@, "ButtplugError", msg),
                        HwCall("command", await[t].device_id, await[t].handle, await[t].args,
                               "pending"))]
    /\ UNCHANGED <<lifecycle, connected, scanning, devices, pc, req, await, resp, shutdown, now>>

\* await actuator.command(...) raises: except ButtplugError as error: raise ServerError(f"{error}")
CommandError(t, msg) ==
    /\ pc[t] = "await_command"
    /\ hw' = [hw EXCEPT ![t] = Ended(@, "ButtplugError", msg)]
    /\ Finish(t, Raised(ServerError(msg)))
    /\ UNCHANGED <<lifecycle, connected, scanning, devices, req, shutdown, now>>

\* ReadComplete with the reading stamped with the time the read was asked for.
ReadComplete_stamped_on_receipt(t, readings) ==
    /\ pc[t] = "await_read"
    /\ Finish(t, Respond(jsonld(render_sensor_reading(await[t].device_id, await[t].handle,
                                                      readings, hw[t][1].started))))
    /\ hw' = [hw EXCEPT ![t] = Returned(@, readings)]
    /\ UNCHANGED <<lifecycle, connected, scanning, devices, req, shutdown, now>>

\* wait_for(sensor.read(), timeout=1.0) returns the readings in time; the reading
\* is rendered with datetime.now() as it is then.
ReadComplete(t, readings) ==
    /\ pc[t] = "await_read"
    /\ Finish(t, Respond(jsonld(render_sensor_reading(await[t].device_id, await[t].handle,
                                                      readings, now))))
    /\ hw' = [hw EXCEPT ![t] = Returned(@, readings)]
    /\ UNCHANGED <<lifecycle, connected, scanning, devices, req, shutdown, now>>

\* ReadError with the failed read reported as a sensor that is not there.
ReadError_notfound(t, msg) ==
    /\ pc[t] = "await_read"
    /\ hw' = [hw EXCEPT ![t] = Ended(@, "ButtplugError", msg)]
    /\ Finish(t, Raised(SensorNotFound(await[t].handle.index)))
    /\ UNCHANGED <<lifecycle, connected, scanning, devices, req, shutdown, now>>

\* sensor.read() raises ButtplugError: the handler's only except clause is TimeoutError.
ReadError(t, msg) ==
    /\ pc[t] = "await_read"
    /\ hw' = [hw EXCEPT ![t] = Ended(@, "ButtplugError", msg)]
    /\ Finish(t, Raised(PythonError("ButtplugError", msg)))
    /\ UNCHANGED <<lifecycle, connected, scanning, devices, req, shutdown, now>>

\* The read is not done after 1 second: wait_for raises asyncio.TimeoutError.  Where
\* that is the builtin TimeoutError (Python 3.11 on) the except clause takes it and
\* returns a ServerError instance; before, it leaves the handler.
ReadTimeout(t, builtin) ==
    /\ pc[t] = "await_read"
    /\ Finish(t, IF builtin
                 THEN Respond(ReturnedException(
                          [ServerError("Sensor read timed out") EXCEPT !.status_code = 504]))
                 ELSE Raised(PythonError("TimeoutError", "")))
    /\ hw' = [hw EXCEPT ![t] = Ended(@, "timeout", "")]
    /\ UNCHANGED <<lifecycle, connected, scanning, devices, req, shutdown, now>>

\* ReadLate with the late reading put into the response after all.
ReadLate_surfaced(t, readings) ==
    /\ pc[t] = "done"
    /\ hw[t] # <<>>
    /\ hw[t][1].result = "timeout"
    /\ hw' = [hw EXCEPT ![t] = [@ EXCEPT ![1] = [@ EXCEPT !.result = "late", !.value = readings]]]
    /\ resp' = [resp EXCEPT ![t] =
                   jsonld(render_sensor_reading(hw[t][1].device_id, hw[t][1].handle,
                                                readings, now))]
    /\ UNCHANGED <<lifecycle, connected, scanning, devices, pc, req, await, shutdown, now>>

\* The hardware answers a read that wait_for has cancelled on its timeout: nothing
\* awaits the reading any more.
ReadLate(t, readings) ==
    /\ pc[t] = "done"
    /\ hw[t] # <<>>
    /\ hw[t][1].result = "timeout"
    /\ hw' = [hw EXCEPT ![t] = [@ EXCEPT ![1] = [@ EXCEPT !.result = "late", !.value = readings]]]
    /\ UNCHANGED <<lifecycle, connected, scanning, devices, pc, req, await, resp, shutdown, now>>

\* scan: after the sleep, await client.stop_scanning(); return jsonld({"status": "ok"})
ScanStop(t) ==
    /\ pc[t] = "scan_sleep"
    /\ scanning' = FALSE
    /\ hw' = [hw EXCEPT ![t] = Append(@, HwCall("stop_scanning", -1, NoHandle, <<>>, "returned"))]
    /\ Finish(t, Respond(jsonld(StatusOk)))
    /\ UNCHANGED <<lifecycle, connected, devices, req, shutdown, now>>

\* The caller has its response; the task is free for the next request.
Deliver(t) ==
    /\ pc[t] = "done"
    /\ pc' = [pc EXCEPT ![t] = "idle"]
    /\ req' = [req EXCEPT ![t] = NoReq]
    /\ hw' = [hw EXCEPT ![t] = <<>>]
    /\ resp' = [resp EXCEPT ![t] = NoResp]
    /\ UNCHANGED <<lifecycle, connected, scanning, devices, await, shutdown, now>>

\* Requests one at a time: the registry changes between requests and inside a
\* scan window only.
Quiet == \A t \in Tasks : pc[t] \in {"idle", "scan_sleep"}

Next ==
    \/ StartupConnect
    \/ StartupStartScanning
    \/ StartupStopScanning
    \/ StartupConnectFails
    \/ StartupScanFails
    \/ after_server_stop
    \/ \E hook \in BOOLEAN : StopAfterFailedStartup(hook)
    \/ Tick
    \/ Quiet /\ \E d \in DevIndexes : DeviceAdded(d)
    \/ Quiet /\ \E d \in DevIndexes : DeviceRemoved(d)
    \/ Quiet /\ ConnectionLost
    \/ AllIdle /\ \E r \in Requests : Receive(1, r)
    \/ CommandAck(1)
    \/ \E msg \in HardwareMessages : CommandError(1, msg)
    \/ \E readings \in Readings : ReadComplete(1, readings)
    \/ \E msg \in HardwareMessages : ReadError(1, msg)
    \/ \E builtin \in BOOLEAN : ReadTimeout(1, builtin)
    \/ \E readings \in Readings : ReadLate(1, readings)
    \/ ScanStop(1)
    \/ Deliver(1)

Spec == Init /\ [][Next]_vars

---------------------------------------------------------------------------
\* What the properties below speak about.

\* The handler the request of task t is routed to.
HandlerOf(r) == Route(r.method, r.path).name
DeviceIdOf(r) == Route(r.method, r.path).device_id
ChildIdOf(r) == Route(r.method, r.path).child_id

CommandPosts == {"actuator_post", "linear_actuator_post", "rotatory_actuator_post"}
TouchesRegistry(name) == name \notin {"index", "health_check"}

\* The step in which task t takes a request and runs its handler.
Takes(t) == pc[t] = "idle" /\ pc'[t] # "idle"

\* A task whose response has been produced.
Done(t) == pc[t] = "done"

InUnit(v) == v.t = "num" /\ 0 <= v.n /\ v.n <= Tenths

\* The schema of each actuator kind, as the specification words it.
SatisfiesSchema(name, body) ==
    CASE name = "actuator_post" -> InUnit(body.intensity)
      [] name = "linear_actuator_post" ->
            /\ body.duration.t = "num"
            /\ body.duration.n % Tenths = 0
            /\ body.duration.n >= 0
            /\ InUnit(body.position)
      [] name = "rotatory_actuator_post" ->
            /\ InUnit(body.speed)
            /\ body.clockwise.t \in {"absent", "bool"}
      [] OTHER -> TRUE

\* C1 as stated: while the client reports not-connected, every request to an
\* endpoint that touches the registry, whatever its ids and body, is answered 502.
C1_Disconnected502 ==
    [][\A t \in Tasks :
          (Takes(t) /\ ~connected /\ TouchesRegistry(HandlerOf(req'[t])))
              => (pc'[t] = "done" /\ resp'[t].status = 502)]_vars

\* C1 amended: while the client reports not-connected, every request to an endpoint
\* that touches the registry is answered 502, except a command POST whose body
\* violates its schema: that one is answered 422, the body being validated first.
C1_Disconnected502ValidBody ==
    [][\A t \in Tasks :
          (Takes(t) /\ ~connected /\ TouchesRegistry(HandlerOf(req'[t])))
              => /\ pc'[t] = "done"
                 /\ resp'[t].status =
                        IF SatisfiesSchema(HandlerOf(req'[t]), req'[t].body) THEN 502 ELSE 422]_vars

C1_Witness ==
    /\ Done(1)
    /\ ~connected
    /\ HandlerOf(req[1]) \in CommandPosts
    /\ DeviceIdOf(req[1]) = -1
    /\ resp[1].status = 502

\* C2 as stated: on a connected client every lookup, for every id, ends with the
\* matching not-found error carrying the id when the id is outside [0, len), and
\* with the element at that index otherwise; never with another error.
BoundsChecked(result, len, id, notfound, element) ==
    IF 0 <= id /\ id < len
    THEN result.ok /\ result.val = element
    ELSE ~result.ok /\ result.exc = notfound

C2_LookupBoundsChecked ==
    (lifecycle = "ready" /\ connected) =>
        \A id \in IdRange :
            /\ LET r == get_device(id)
               IN  IF 0 <= id /\ id < DictLen(devices)
                   THEN r.ok /\ r.val.index = id
                   ELSE ~r.ok /\ r.exc = DeviceNotFound(id)
            /\ \A d \in DOMAIN devices :
                  get_device(d).ok =>
                    /\ LET seq == devices[d].sensors
                       IN  BoundsChecked(get_sensor(d, id), Len(seq), id, SensorNotFound(id),
                                         IF 0 <= id /\ id < Len(seq) THEN seq[id + 1] ELSE NoHandle)
                    /\ LET seq == devices[d].actuators
                       IN  BoundsChecked(get_actuator(d, id), Len(seq), id, ActuatorNotFound(id),
                                         IF 0 <= id /\ id < Len(seq) THEN seq[id + 1] ELSE NoHandle)
                    /\ LET seq == devices[d].linear_actuators
                       IN  BoundsChecked(get_linear_actuator(d, id), Len(seq), id,
                                         ActuatorNotFound(id),
                                         IF 0 <= id /\ id < Len(seq) THEN seq[id + 1] ELSE NoHandle)
                    /\ LET seq == devices[d].rotatory_actuators
                       IN  BoundsChecked(get_rotatory_actuator(d, id), Len(seq), id,
                                         ActuatorNotFound(id),
                                         IF 0 <= id /\ id < Len(seq) THEN seq[id + 1] ELSE NoHandle)

\* C3 as stated: a sensor read that does not complete within the timeout is
\* answered with status 504.
C3_ReadTimeout504 ==
    \A t \in Tasks :
        (Done(t) /\ HandlerOf(req[t]) = "sensor_reading_get"
                 /\ hw[t] # <<>> /\ hw[t][1].result = "timeout")
            => resp[t].status = 504

CommandCalls(t) == SelectSeq(hw[t], LAMBDA c : c.op = "command")

\* C4: a command POST whose body violates the schema of its kind is answered 422
\* and no command operation is invoked on any actuator handle during the request.
C4_InvalidBodyNoCommand ==
    \A t \in Tasks :
        (pc[t] # "idle" /\ HandlerOf(req[t]) \in CommandPosts
                        /\ ~SatisfiesSchema(HandlerOf(req[t]), req[t].body))
            => /\ Done(t)
               /\ resp[t].status = 422
               /\ CommandCalls(t) = <<>>

\* An invalid body sent to an actuator that exists on a connected client.
C4_Witness ==
    /\ Done(1)
    /\ connected
    /\ HandlerOf(req[1]) = "linear_actuator_post"
    /\ get_linear_actuator(DeviceIdOf(req[1]), ChildIdOf(req[1])).ok
    /\ req[1].body.duration = Num(-Tenths)
    /\ resp[1].status = 422

\* C5: a command body is rejected with 422 exactly when it does not satisfy the
\* schema of its kind, bounds inclusive; an absent clockwise is passed on as false.
C5_AcceptedIffSchema ==
    \A t \in Tasks :
        (pc[t] # "idle" /\ HandlerOf(req[t]) \in CommandPosts)
            => /\ (Done(t) /\ resp[t].status = 422)
                      <=> ~SatisfiesSchema(HandlerOf(req[t]), req[t].body)
               /\ \A k \in 1..Len(hw[t]) :
                     (HandlerOf(req[t]) = "rotatory_actuator_post"
                         /\ req[t].body.clockwise.t = "absent")
                        => hw[t][k].args = <<req[t].body.speed.n, 0>>

\* Both boundary values, accepted and passed on to the actuator.
C5_Witness ==
    /\ pc[1] = "await_command"
    /\ HandlerOf(req[1]) = "linear_actuator_post"
    /\ req[1].body.duration = Num(0)
    /\ req[1].body.position = Num(Tenths)
    /\ hw[1][1].args = <<0, Tenths>>

\* C6: a command dispatch invokes the handle's command operation exactly once; a
\* ButtplugError it raises is answered 500 with the hardware error's message, and a
\* command that succeeds is answered with success.
C6_HardwareFailure500Once ==
    \A t \in Tasks :
        (pc[t] # "idle" /\ HandlerOf(req[t]) \in CommandPosts /\ hw[t] # <<>>)
            => /\ Len(hw[t]) = 1
               /\ hw[t][1].op = "command"
               /\ Done(t) =>
                    /\ hw[t][1].result \in {"returned", "ButtplugError"}
                    /\ hw[t][1].result = "ButtplugError" =>
                          /\ resp[t].status = 500
                          /\ resp[t].body.detail = hw[t][1].error
                    /\ hw[t][1].result = "returned" =>
                          /\ resp[t].status = 200
                          /\ resp[t].body = StatusOk

C6_Witness ==
    /\ Done(1)
    /\ HandlerOf(req[1]) = "rotatory_actuator_post"
    /\ hw[1] # <<>>
    /\ hw[1][1].result = "ButtplugError"
    /\ hw[1][1].error = "device busy"
    /\ resp[1].status = 500

Range(seq) == {seq[k] : k \in 1..Len(seq)}

\* The links GET /devices and GET /devices/{id} render for the registered devices.
RenderedLinks ==
    UNION { LET item == render_device(devices[d])
            IN  Range(item.sensors) \cup Range(item.actuators)
                    \cup Range(item.linear_actuators) \cup Range(item.rotatory_actuators) :
            d \in DOMAIN devices }

\* C7 as stated: each of a device's four link lists has as many links as the device
\* has children of that category, and a GET on a rendered link returns a resource
\* whose own @id is that link.
C7_LinkRoundTrip ==
    /\ \A d \in DOMAIN devices :
          LET item == render_device(devices[d])
          IN  /\ Len(item.sensors) = Len(devices[d].sensors)
              /\ Len(item.actuators) = Len(devices[d].actuators)
              /\ Len(item.linear_actuators) = Len(devices[d].linear_actuators)
              /\ Len(item.rotatory_actuators) = Len(devices[d].rotatory_actuators)
    /\ \A t \in Tasks :
          (Done(t) /\ connected /\ req[t].method = "GET" /\ req[t].path \in RenderedLinks)
              => /\ resp[t].status = 200
                 /\ resp[t].body.id = req[t].path

TypeOfCategory(name) ==
    CASE name \in {"actuators_get", "actuator_get"} -> "Actuator"
      [] name \in {"linear_actuators_get", "linear_actuator_get"} -> "LinearActuator"
      [] name \in {"rotatory_actuators_get", "rotatory_actuator_get"} -> "RotatoryActuator"

\* C8 as stated: a rendered actuator carries the type discriminator of the category
\* it was addressed through, in the list and in the detail endpoints.
C8_TypeDiscriminator ==
    \A t \in Tasks :
        (Done(t) /\ resp[t].status = 200)
            => /\ HandlerOf(req[t]) \in {"actuator_get", "linear_actuator_get",
                                         "rotatory_actuator_get"}
                    => resp[t].body.type = TypeOfCategory(HandlerOf(req[t]))
               /\ HandlerOf(req[t]) \in {"actuators_get", "linear_actuators_get",
                                         "rotatory_actuators_get"}
                    => \A k \in 1..Len(resp[t].body.root) :
                          resp[t].body.root[k].type = TypeOfCategory(HandlerOf(req[t]))

\* C9 as stated: GET /devices/{id}/rotatory_actuators returns one entry for each
\* element of the device's rotatory-actuator collection, in its order, as many as
\* GET /devices/{id} links and as the detail endpoint finds.
C9_RotatoryListOwnCollection ==
    \A t \in Tasks :
        (Done(t) /\ resp[t].status = 200 /\ HandlerOf(req[t]) = "rotatory_actuators_get")
            => LET d == DeviceIdOf(req[t])
                   own == devices[d].rotatory_actuators
               IN  /\ Len(resp[t].body.root) = Len(own)
                   /\ \A k \in 1..Len(own) :
                         /\ resp[t].body.root[k].description = own[k].description
                         /\ resp[t].body.root[k].step_count = own[k].step_count
                   /\ Len(resp[t].body.root) = Len(render_device(devices[d]).rotatory_actuators)
                   /\ Len(resp[t].body.root) =
                         Cardinality({a \in IdRange : a >= 0 /\ get_rotatory_actuator(d, a).ok})

\* C10 as stated: every error response has the fields title, status and detail
\* and, optionally, errors, and no other; its status field is the HTTP status; a 404
\* names the category and the offending id.
C10_UniformEnvelope ==
    \A t \in Tasks :
        (Done(t) /\ resp[t].status >= 400)
            => /\ {"title", "status", "detail"} \subseteq DOMAIN resp[t].body
               /\ DOMAIN resp[t].body \subseteq {"title", "status", "detail", "errors"}
               /\ resp[t].body.status = resp[t].status
               /\ resp[t].status = 404 =>
                     /\ resp[t].body.title \in
                            {"Device Not Found", "Sensor Not Found", "Actuator Not Found"}
                     /\ resp[t].body.detail \in
                            {ToString(DeviceIdOf(req[t])), ToString(ChildIdOf(req[t]))}

---------------------------------------------------------------------------
\* The server in front of a registry that stays as the startup scan left it: the
\* caller sends a GET and, once it has the response, the same GET again.

GetRequests == {r \in Requests : r.method = "GET"}

NextStill ==
    \/ StartupConnect
    \/ StartupStartScanning
    \/ StartupStopScanning
    \/ lifecycle = "scanning" /\ \E d \in DevIndexes : DeviceAdded(d)
    \/ lifecycle = "scanning" /\ \E d \in DevIndexes : DeviceRemoved(d)
    \/ AllIdle /\ \E r \in GetRequests : Receive(1, r)
    \/ Done(1) /\ Receive(2, req[1])
    \/ \E t \in Tasks, readings \in Readings : ReadComplete(t, readings)
    \/ \E t \in Tasks, msg \in HardwareMessages : ReadError(t, msg)
    \/ \E t \in Tasks, builtin \in BOOLEAN : ReadTimeout(t, builtin)
    \/ Done(1) /\ Done(2) /\ Deliver(1)
    \/ pc[1] = "idle" /\ Deliver(2)

SpecStill == Init /\ [][NextStill]_vars

\* Both calls of the same GET have their responses.
BothDone == Done(1) /\ Done(2) /\ req[1] = req[2]

---------------------------------------------------------------------------
\* The request of task t got past get_client's connectivity check: it was neither
\* turned away for its body nor for the connection.
PassedGetClient(t) ==
    /\ Takes(t)
    /\ TouchesRegistry(HandlerOf(req'[t]))
    /\ ~(pc'[t] = "done" /\ resp'[t].status \in {422, 502})

\* C12: startup connects, then starts scanning, then stops scanning and only then
\* is ready; ready is left only by the disconnect of the stop; and a handler gets
\* past get_client only while the server is ready and the client connected.
C12_LifecycleOrder ==
    [][/\ (connected' /\ ~connected) => (lifecycle = "created" /\ lifecycle' = "connecting")
       /\ (lifecycle' = "scanning" /\ lifecycle # "scanning")
             => (lifecycle = "connecting" /\ connected /\ ~scanning /\ scanning')
       /\ (lifecycle' = "ready" /\ lifecycle # "ready")
             => (lifecycle = "scanning" /\ connected /\ scanning /\ ~scanning')
       /\ (lifecycle = "ready" /\ lifecycle' # "ready")
             => (lifecycle' = "stopped" /\ ~connected' /\ shutdown' = "disconnected")
       /\ \A t \in Tasks :
             PassedGetClient(t) => (lifecycle = "ready" /\ connected /\ lifecycle' = "ready")]_vars

\* A request served from the registry the startup scan filled.
C12_Witness ==
    /\ lifecycle = "ready"
    /\ connected
    /\ Done(1)
    /\ HandlerOf(req[1]) = "devices_get"
    /\ resp[1].status = 200
    /\ resp[1].body.root # <<>>

---------------------------------------------------------------------------
\* The fields of a command body that offend the schema of the handler's kind.
OffendingFields(name, body) ==
    CASE name = "actuator_post" -> {f \in {"intensity"} : ~InUnit(body.intensity)}
      [] name = "linear_actuator_post" ->
            {f \in {"duration"} : ~(/\ body.duration.t = "num"
                                    /\ body.duration.n % Tenths = 0
                                    /\ body.duration.n >= 0)}
            \cup {f \in {"position"} : ~InUnit(body.position)}
      [] name = "rotatory_actuator_post" ->
            {f \in {"speed"} : ~InUnit(body.speed)}
            \cup {f \in {"clockwise"} : body.clockwise.t \notin {"absent", "bool"}}
      [] OTHER -> {}

---------------------------------------------------------------------------
\* A response built by handle_exception or handle_validation_error.
ProblemResponse(r) ==
    /\ r.content_type = "application/problem+json"
    /\ {"title", "status", "detail"} \subseteq DOMAIN r.body

\* C14 as stated: a ButtplugError raised by the sensor read is translated by the
\* handler into a structured problem response.
C14_ReadErrorStructured ==
    \A t \in Tasks :
        (Done(t) /\ HandlerOf(req[t]) = "sensor_reading_get"
                 /\ hw[t] # <<>> /\ hw[t][1].result = "ButtplugError")
            => ProblemResponse(resp[t])

---------------------------------------------------------------------------
\* The exceptions the lookups of the request of task t can raise.
LookupFailures(t) ==
    {ButtPlugConnectionError, DeviceNotFound(DeviceIdOf(req[t])),
     SensorNotFound(ChildIdOf(req[t])), ActuatorNotFound(ChildIdOf(req[t]))}

\* C15: a request that ends with 502 or 404 has invoked no hardware operation and
\* rendered nothing: its response is the problem built from the lookup's exception.
C15_NoHardwareBeforeFailure ==
    \A t \in Tasks :
        (Done(t) /\ resp[t].status \in {502, 404})
            => /\ hw[t] = <<>>
               /\ \E e \in LookupFailures(t) : resp[t] = handle_exception(e)

\* A read asked of a sensor that an existing device does not have.
C15_Witness ==
    /\ Done(1)
    /\ connected
    /\ HandlerOf(req[1]) = "sensor_reading_get"
    /\ get_device(DeviceIdOf(req[1])).ok
    /\ resp[1].status = 404
    /\ resp[1].body.title = "Sensor Not Found"
    /\ hw[1] = <<>>

---------------------------------------------------------------------------
\* The server with two requests in flight: either task takes a request while the
\* other is suspended, and the registry changes under both.

Request(method, name, device_id, child_id, body) ==
    [method |-> method, path |-> url_for(name, device_id, child_id), body |-> body]

ConcRequests ==
    {Request("POST", "scan", 0, 0, NoBody), Request("GET", "devices_get", 0, 0, NoBody)}
    \cup {Request("GET", "device_get", d, 0, NoBody) : d \in DevIndexes}
    \cup {Request("GET", "sensor_reading_get", d, 0, NoBody) : d \in 0..1}
    \cup {Request("POST", "actuator_post", 1, a, [NoBody EXCEPT !.intensity = Num(5)]) :
            a \in 0..1}

NextConc ==
    \/ StartupConnect
    \/ StartupStartScanning
    \/ StartupStopScanning
    \/ \E d \in DevIndexes : DeviceAdded(d)
    \/ \E d \in DevIndexes : DeviceRemoved(d)
    \/ ConnectionLost
    \/ \E t \in Tasks : pc[t] = "idle" /\ \E r \in ConcRequests : Receive(t, r)
    \/ \E t \in Tasks : CommandAck(t)
    \/ \E t \in Tasks, msg \in HardwareMessages : CommandError(t, msg)
    \/ \E t \in Tasks, readings \in Readings : ReadComplete(t, readings)
    \/ \E t \in Tasks, msg \in HardwareMessages : ReadError(t, msg)
    \/ \E t \in Tasks, builtin \in BOOLEAN : ReadTimeout(t, builtin)
    \/ \E t \in Tasks, readings \in Readings : ReadLate(t, readings)
    \/ \E t \in Tasks : ScanStop(t)
    \/ \E t \in Tasks : Deliver(t)

SpecConc == Init /\ [][NextConc]_vars

\* Another request is inside the window of its runtime scan.
RescanBy(t) == \E u \in Tasks \ {t} : pc[u] = "scan_sleep"

\* C16 as stated: while a runtime re-scan adds and removes devices, a device lookup
\* of another request ends with the device registered under the requested index,
\* or with the device's not-found error when no device has that index; never with
\* another error, never not-found for an index that is present.
C16_LookupUnderRescan ==
    [][\A t \in Tasks :
          (Takes(t) /\ RescanBy(t) /\ connected /\ HandlerOf(req'[t]) = "device_get")
              => LET d == DeviceIdOf(req'[t])
                 IN  /\ pc'[t] = "done"
                     /\ resp'[t] = IF d \in DOMAIN devices
                                   THEN jsonld(render_device(devices[d]))
                                   ELSE handle_exception(DeviceNotFound(d))]_vars

---------------------------------------------------------------------------
\* Task t is suspended at a hardware command, a sensor read or a scan window.
Suspended(t) == pc[t] \in {"await_command", "await_read", "scan_sleep"}

\* C17: while a request is suspended the other task is not held up: it can take
\* any request, and its own suspended call can end and its response go out; and
\* every command request in flight has had its command sent exactly once, to the
\* actuator it names.
C17_SuspendedBlocksNobody ==
    \A t \in Tasks :
        /\ Suspended(t) =>
              \A u \in Tasks \ {t} :
                  /\ pc[u] = "idle" => \A r \in ConcRequests : ENABLED Receive(u, r)
                  /\ pc[u] = "await_command" =>
                        /\ ENABLED CommandAck(u)
                        /\ \A msg \in HardwareMessages : ENABLED CommandError(u, msg)
                  /\ pc[u] = "await_read" =>
                        \A readings \in Readings : ENABLED ReadComplete(u, readings)
                  /\ pc[u] = "scan_sleep" => ENABLED ScanStop(u)
                  /\ pc[u] = "done" => ENABLED Deliver(u)
        /\ (pc[t] # "idle" /\ hw[t] # <<>> /\ HandlerOf(req[t]) = "actuator_post")
              => /\ Len(CommandCalls(t)) = 1
                 /\ hw[t][1].handle.index = ChildIdOf(req[t])
                 /\ hw[t][1].device_id = DeviceIdOf(req[t])

\* Two commands to two actuators of one device: the second one sent and answered
\* while the first still waits for the hardware.
C17_Witness ==
    /\ pc[1] = "await_command"
    /\ Done(2)
    /\ HandlerOf(req[2]) = "actuator_post"
    /\ ChildIdOf(req[1]) # ChildIdOf(req[2])
    /\ resp[2].status = 200
    /\ Len(CommandCalls(1)) = 1
    /\ Len(CommandCalls(2)) = 1

---------------------------------------------------------------------------
\* C18: once the timeout of a read has expired the read is no longer awaited, the
\* request's response carries no reading, also when the hardware answers later;
\* and a response that carries a reading carries the one its own read returned.
C18_TimeoutCancelsRead ==
    \A t \in Tasks :
        /\ (pc[t] # "idle" /\ hw[t] # <<>> /\ hw[t][1].result \in {"timeout", "late"})
              => /\ Done(t)
                 /\ "value" \notin DOMAIN resp[t].body
                 /\ resp[t].status # 200
        /\ "value" \in DOMAIN resp[t].body
              => /\ hw[t] # <<>>
                 /\ hw[t][1].result = "returned"
                 /\ resp[t].body.value = hw[t][1].value

\* The hardware has answered a cancelled read while another request reads the same
\* sensor.
C18_Witness ==
    /\ Done(1)
    /\ hw[1] # <<>>
    /\ hw[1][1].result = "late"
    /\ hw[1][1].value = <<50>>
    /\ Done(2)
    /\ req[2] = req[1]
    /\ resp[2].status = 200
    /\ resp[2].body.value = <<3, 7>>

---------------------------------------------------------------------------
\* C19: in a successful sensor-read response the capture instant is the clock at
\* the completion of the hardware read, not the clock at the receipt of the
\* request, and the value is the sequence the read returned.
C19_InstantAtCompletion ==
    \A t \in Tasks :
        (Done(t) /\ HandlerOf(req[t]) = "sensor_reading_get" /\ resp[t].status = 200)
            => /\ hw[t][1].result = "returned"
               /\ resp[t].body.instant = hw[t][1].ended
               /\ resp[t].body.instant >= hw[t][1].started
               /\ resp[t].body.value = hw[t][1].value
               /\ resp[t].body.value \in Readings

\* A read that took two ticks of the clock.
C19_Witness ==
    /\ Done(1)
    /\ HandlerOf(req[1]) = "sensor_reading_get"
    /\ resp[1].status = 200
    /\ hw[1][1].started = 0
    /\ hw[1][1].ended = 2
    /\ resp[1].body.instant = 2
    /\ resp[1].body.value = <<3, 7>>

---------------------------------------------------------------------------
\* C20 as stated: whenever the server has stopped, from whatever lifecycle state,
\* disconnect has been invoked on the client and the shutdown hook has not failed.
C20_ShutdownDisconnects ==
    lifecycle = "stopped" => (shutdown = "disconnected" /\ ~connected)

---------------------------------------------------------------------------
\* The collection of a device a command handler takes its actuator from.
CommandCollection(name, device) ==
    CASE name = "actuator_post" -> device.actuators
      [] name = "linear_actuator_post" -> device.linear_actuators
      [] name = "rotatory_actuator_post" -> device.rotatory_actuators

\* C21 as stated: a command POST is checked in the order payload, connection,
\* device bounds, actuator bounds, hardware dispatch, and its response reports the
\* first check that fails: 422, 502, 404 for the device, 404 for the actuator, and
\* otherwise the one dispatch's outcome, 500 or success.
C21_CheckOrder ==
    \A t \in Tasks :
        (Done(t) /\ HandlerOf(req[t]) \in CommandPosts)
            => LET name == HandlerOf(req[t])
                   d == DeviceIdOf(req[t])
                   a == ChildIdOf(req[t])
               IN  IF ~SatisfiesSchema(name, req[t].body)
                   THEN resp[t].status = 422 /\ hw[t] = <<>>
                   ELSE IF ~connected
                   THEN resp[t].status = 502 /\ hw[t] = <<>>
                   ELSE IF ~(0 <= d /\ d < DictLen(devices))
                   THEN /\ resp[t].status = 404
                        /\ resp[t].body.title = "Device Not Found"
                        /\ hw[t] = <<>>
                   ELSE IF ~(/\ d \in DOMAIN devices
                             /\ 0 <= a
                             /\ a < Len(CommandCollection(name, devices[d])))
                   THEN /\ resp[t].status = 404
                        /\ resp[t].body.title = "Actuator Not Found"
                        /\ hw[t] = <<>>
                   ELSE /\ Len(CommandCalls(t)) = 1
                        /\ hw[t][1].handle = CommandCollection(name, devices[d])[a + 1]
                        /\ resp[t].status = IF hw[t][1].result = "returned" THEN 200 ELSE 500

---------------------------------------------------------------------------
\* C22 as stated: while a /scan request is inside its window, between its own
\* start_scanning and its own stop_scanning, discovery is active on the connected
\* client, also when /scan requests overlap; and with no /scan request in its
\* window the ready server is not scanning.
C22_ScanWindowKept ==
    /\ \A t \in Tasks : (pc[t] = "scan_sleep" /\ connected) => scanning
    /\ (lifecycle = "ready" /\ \A t \in Tasks : pc[t] # "scan_sleep") => ~scanning

====
